---- MODULE Spec2Model ----
(***************************************************************************)
(* A model of cpppo's server/enip/hart.py: the HART Interface Object       *)
(* (class 0x35D), its request handler HART.request, its encoder            *)
(* HART.produce and the Read Dynamic Variable reply grammar.                *)
(*                                                                         *)
(* Three specifications share the definitions below:                       *)
(*   Spec       one caller at a time runs HART.request to completion       *)
(*              (sequential requests), with the registry shared;           *)
(*   SpecConc   two callers run the Read Dynamic Variable body             *)
(*              concurrently, one registry operation per step;             *)
(*   SpecCodec  HART.produce encodes a reply record and the reply grammar  *)
(*              decodes the bytes, one grammar state per step.             *)
(***************************************************************************)
EXTENDS Integers, Sequences, FiniteSets, TLC

\* ------------------------------------------------------------ bounds ----
\* Tags that code outside HART.request may have registered (redirect_tag is
\* a public registry operation) before a request runs.
MaxForeign == 1
\* Loop iterations each caller is followed through in SpecConc.
ConcFields == 2
\* Bytes of trailing garbage appended to an encoded reply in SpecCodec.
MaxTrail == 2
\* Number of distinct reply payloads encoded in SpecCodec.
NumPayloads == 3

\* --------------------------------------------------- program constants ----
HART_Data_class_id == 62301     \* 0xF35D
RD_VAR_REQ == 75                \* 0x4B
RD_STS_REQ == 76                \* 0x4C
RD_INF_REQ == 77                \* 0x4D
PT_INI_REQ == 78                \* 0x4E
PT_QRY_REQ == 79                \* 0x4F
PT_FLQ_REQ == 80                \* 0x50
UC_SND_REQ == 82                \* 0x52, Connection_Manager.UC_SND_REQ
ReplyBit == 128                 \* 0x80
StatusDefault == 8              \* 0x08
StatusOK == 0                   \* 0x00

RD_VAR_CTX == "read_var"
RD_STS_CTX == "read_sts"
RD_INF_CTX == "get_info"
PT_INI_CTX == "init"
PT_QRY_CTX == "query"
PT_FLQ_CTX == "flush"

\* ------------------------------------------------------ bit arithmetic ----
\* x | y on 8-bit values, bit by bit.
RECURSIVE BitOr(_, _, _)
BitOr(x, y, n) ==
    IF n = 0 THEN 0
    ELSE (IF (x % 2 = 1) \/ (y % 2 = 1) THEN 1 ELSE 0)
         + 2 * BitOr(x \div 2, y \div 2, n - 1)

\* A mutated reply code: the wrong bit (0x08) is or-ed in.
ReplyServiceWrongBit(service) == BitOr(service, StatusDefault, 8)

\* data.service |= 0x80
ReplyService(service) == BitOr(service, ReplyBit, 8)

RD_VAR_RPY == 203                \* 0xCB, RD_VAR_REQ | 0x80

\* --------------------------------------------------- field descriptor ----
\* A REAL is an IEEE-754 single: its sign bit and its 31 exponent/mantissa
\* bits.  A USINT is a number 0..255.
ZeroReal == [neg |-> FALSE, mag |-> 0]

RD_VAR_RPY_FLD ==
    << [typ |-> "USINT", fld |-> "HART_command_status", dfl |-> 0],
       [typ |-> "USINT", fld |-> "HART_fld_dev_status", dfl |-> 0],
       [typ |-> "USINT", fld |-> "HART_ext_dev_status", dfl |-> 0],
       [typ |-> "REAL",  fld |-> "PV",                  dfl |-> ZeroReal],
       [typ |-> "REAL",  fld |-> "SV",                  dfl |-> ZeroReal],
       [typ |-> "REAL",  fld |-> "TV",                  dfl |-> ZeroReal],
       [typ |-> "REAL",  fld |-> "FV",                  dfl |-> ZeroReal],
       [typ |-> "USINT", fld |-> "PV_units",            dfl |-> 0],
       [typ |-> "USINT", fld |-> "SV_units",            dfl |-> 0],
       [typ |-> "USINT", fld |-> "TV_units",            dfl |-> 0],
       [typ |-> "USINT", fld |-> "FV_units",            dfl |-> 0],
       [typ |-> "USINT", fld |-> "PV_assignment_code",  dfl |-> 0],
       [typ |-> "USINT", fld |-> "SV_assignment_code",  dfl |-> 0],
       [typ |-> "USINT", fld |-> "TV_assignment_code",  dfl |-> 0],
       [typ |-> "USINT", fld |-> "FV_assignment_code",  dfl |-> 0],
       [typ |-> "USINT", fld |-> "PV_status",           dfl |-> 0],
       [typ |-> "USINT", fld |-> "SV_status",           dfl |-> 0],
       [typ |-> "USINT", fld |-> "TV_status",           dfl |-> 0],
       [typ |-> "USINT", fld |-> "FV_status",           dfl |-> 0],
       [typ |-> "REAL",  fld |-> "loop_current",        dfl |-> ZeroReal] >>

NumFields == Len(RD_VAR_RPY_FLD)
FieldNames == { RD_VAR_RPY_FLD[i].fld : i \in 1..NumFields }

\* ------------------------------------------------------- scalar codecs ----
\* USINT.produce: one byte.
USINT_produce(v) == << v % 256 >>

\* REAL.produce: struct '<f', four bytes, least significant first.
REAL_produce(v) ==
    << v.mag % 256,
       (v.mag \div 256) % 256,
       (v.mag \div 65536) % 256,
       (IF v.neg THEN 128 ELSE 0) + (v.mag \div 16777216) >>

\* typ.produce( value )
TypProduce(typ, v) == IF typ = "REAL" THEN REAL_produce(v) ELSE USINT_produce(v)

\* The USINT state of a grammar: one byte to a number.
USINT_parse(b) == b[1]

\* The REAL state of a grammar: four bytes, least significant first.
REAL_parse(b) ==
    [neg |-> b[4] >= 128,
     mag |-> b[1] + 256 * b[2] + 65536 * b[3] + 16777216 * (b[4] % 128)]

TypWidth(typ) == IF typ = "REAL" THEN 4 ELSE 1

\* ----------------------------------------------------------- records ----
\* A Message Record (dotdict) is a function from its keys to their values.
Has(d, k) == k \in DOMAIN d
Put(d, k, v) == [x \in DOMAIN d \cup {k} |-> IF x = k THEN v ELSE d[x]]
EmptyRec == [x \in {} |-> 0]
\* d with the fields of e added or replaced.
Merge(d, e) ==
    [x \in DOMAIN d \cup DOMAIN e |-> IF x \in DOMAIN e THEN e[x] ELSE d[x]]

\* ------------------------------------------------------------ strings ----
\* str( attid ): the decimal digits of a number, most significant first.
RECURSIVE str(_)
str(n) == IF n < 10 THEN << n >> ELSE str(n \div 10) \o << n % 10 >>

\* int( key )
RECURSIVE int(_)
int(s) == IF Len(s) = 0 THEN 0
          ELSE 10 * int(SubSeq(s, 1, Len(s) - 1)) + s[Len(s)]

\* Plain string order on digit strings: character by character.
RECURSIVE LexLess(_, _)
LexLess(a, b) ==
    IF Len(a) = 0 THEN Len(b) > 0
    ELSE IF Len(b) = 0 THEN FALSE
    ELSE IF a[1] # b[1] THEN a[1] < b[1]
    ELSE LexLess(Tail(a), Tail(b))

\* misc.natural as a sort key: digit strings order as the numbers they spell.
NaturalLess(a, b) == int(a) < int(b)

\* A mutated choice of the last key: sorted( obj.attribute )[-1].
LastKeyLexical(keys) ==
    CHOOSE k \in keys : \A j \in keys \ {k} : LexLess(j, k)

\* sorted( obj.attribute, key=misc.natural )[-1]
LastKey(keys) ==
    CHOOSE k \in keys : \A j \in keys \ {k} : NaturalLess(j, k)

\* A mutated name: the Data Object's tags carry the instance identifier.
InsNamByInstance(instance_id) == "HART_" \o ToString(instance_id) \o "_Data"

\* "HART_{channel}_Data".format( channel=self.instance_id - 1 )
InsNam(instance_id) == "HART_" \o ToString(instance_id - 1) \o "_Data"

\* '.'.join( (insnam, fldnam) )
Tag(instance_id, fldnam) == InsNam(instance_id) \o "." \o fldnam

\* ----------------------------------------------------------- registry ----
\* The three-part key of an Attribute, and the value that stands for None.
Key(c, i, a) == [class |-> c, instance |-> i, attribute |-> a]
None == Key(-1, -1, -1)

\* resolve_tag( tag ): the key a tag is redirected to, or None.
resolve_tag(sym, tag) == IF tag \in DOMAIN sym THEN sym[tag] ELSE None

\* redirect_tag( tag, address ): the registry with the tag bound to the key.
redirect_tag(sym, tag, key) ==
    [x \in DOMAIN sym \cup {tag} |-> IF x = tag THEN key ELSE sym[x]]

\* lookup( clsid, insid ) finds an object.
lookup_obj(dir, c, i) == << c, i >> \in DOMAIN dir

\* lookup( clsid, insid, attid ) finds an Attribute.
lookup_att(dir, key) ==
    /\ << key.class, key.instance >> \in DOMAIN dir
    /\ str(key.attribute) \in DOMAIN dir[<< key.class, key.instance >>]

\* Attribute_print( name=tag, type_cls=typ, default=dfl )
Attribute_print(tag, typ, dfl) == [name |-> tag, typ |-> typ, value |-> dfl]

\* route( data, fail=ROUTE_FALSE ): None when the record is for this object,
\* False when its path does not resolve, else the target object.
route(d) ==
    IF ~Has(d, "path") \/ d.path = "self" THEN "None"
    ELSE IF d.path = "other" THEN "target"
    ELSE "False"

\* Lines 360-380: the chain of payload states of __read_var_reply, each a
\* scalar state storing into read_var under its extension; the last one is
\* terminal.
ReplyFieldStates ==
    << [typ |-> "USINT", name |-> "HART_command_status", ext |-> "HART_command_status"],
       [typ |-> "USINT", name |-> "HART_fld_dev_status", ext |-> "HART_fld_dev_status"],
       [typ |-> "USINT", name |-> "HART_ext_dev_status", ext |-> "HART_ext_dev_status"],
       [typ |-> "REAL",  name |-> "PV",                  ext |-> "PV"],
       [typ |-> "REAL",  name |-> "SV",                  ext |-> "SV"],
       [typ |-> "REAL",  name |-> "TV",                  ext |-> "TV"],
       [typ |-> "REAL",  name |-> "FV",                  ext |-> "FV"],
       [typ |-> "USINT", name |-> "PV_units",            ext |-> "PV_units"],
       [typ |-> "USINT", name |-> "SV_units",            ext |-> "SV_units"],
       [typ |-> "USINT", name |-> "TV_units",            ext |-> "TV_units"],
       [typ |-> "USINT", name |-> "FV_units",            ext |-> "FV_units"],
       [typ |-> "USINT", name |-> "PV_assignment_code",  ext |-> "PV_assignment_code"],
       [typ |-> "USINT", name |-> "SV_assignment_code",  ext |-> "SV_assignment_code"],
       [typ |-> "USINT", name |-> "TV_assignment_code",  ext |-> "TV_assignment_code"],
       [typ |-> "USINT", name |-> "FV_assignment_code",  ext |-> "FV_assignment_code"],
       [typ |-> "USINT", name |-> "PV_status",           ext |-> "PV_status"],
       [typ |-> "USINT", name |-> "SV_status",           ext |-> "SV_status"],
       [typ |-> "USINT", name |-> "TV_status",           ext |-> "TV_status"],
       [typ |-> "USINT", name |-> "FV_status",           ext |-> "FV_status"],
       [typ |-> "REAL",  name |-> "loop_current",        ext |-> "loop_current"] >>

\* The payload states of the reply grammar run on bytes b from field k on:
\* the fields parsed, or failed when the bytes end before the last field does.
RECURSIVE ParseFields(_, _)
ParseFields(b, k) ==
    IF k > Len(ReplyFieldStates) THEN [failed |-> FALSE, fields |-> EmptyRec]
    ELSE LET f == ReplyFieldStates[k]
             w == TypWidth(f.typ)
         IN  IF Len(b) < w THEN [failed |-> TRUE, fields |-> EmptyRec]
             ELSE LET rest == ParseFields(SubSeq(b, w + 1, Len(b)), k + 1)
                      v == IF f.typ = "REAL" THEN REAL_parse(SubSeq(b, 1, w))
                           ELSE USINT_parse(SubSeq(b, 1, w))
                  IN  [failed |-> rest.failed,
                       fields |-> IF rest.failed THEN EmptyRec
                                  ELSE Put(rest.fields, f.ext, v)]

\* self.parser run on the bytes of an embedded request, with the grammars
\* registered at lines 351 and 389: the fields it adds to data.request, or
\* failed when no grammar takes the first byte or the bytes end too early.
parse_request(input) ==
    IF Len(input) = 0 THEN [failed |-> TRUE, fields |-> EmptyRec]
    ELSE IF input[1] = RD_VAR_REQ
    THEN [failed |-> FALSE,
          fields |-> [service |-> RD_VAR_REQ, read_var |-> TRUE]]
    ELSE IF input[1] = RD_VAR_RPY
    THEN IF Len(input) < 2 THEN [failed |-> TRUE, fields |-> EmptyRec]
         ELSE IF input[2] # StatusOK
         THEN [failed |-> FALSE,
               fields |-> [service |-> RD_VAR_RPY, status |-> input[2],
                           read_var |-> TRUE]]
         ELSE LET got == ParseFields(SubSeq(input, 3, Len(input)), 1)
              IN  [failed |-> got.failed,
                   fields |-> IF got.failed THEN EmptyRec
                              ELSE [service |-> RD_VAR_RPY, status |-> StatusOK,
                                    read_var |-> got.fields]]
    ELSE [failed |-> TRUE, fields |-> EmptyRec]

\* ------------------------------------------------------------ produce ----
\* A mutated field loop: the fields are emitted last to first.
RECURSIVE ProduceFieldsReversed(_, _)
ProduceFieldsReversed(rv, k) ==
    IF k > NumFields THEN << >>
    ELSE LET f == RD_VAR_RPY_FLD[NumFields + 1 - k]
             v == IF Has(rv, f.fld) THEN rv[f.fld]
                  ELSE IF f.typ = "REAL" THEN ZeroReal ELSE 0
         IN  TypProduce(f.typ, v) \o ProduceFieldsReversed(rv, k + 1)

\* A mutated field loop: SV is emitted before PV.
RECURSIVE ProduceFieldsSwapped(_, _)
ProduceFieldsSwapped(rv, k) ==
    IF k > NumFields THEN << >>
    ELSE LET f == RD_VAR_RPY_FLD[IF k = 4 THEN 5 ELSE IF k = 5 THEN 4 ELSE k]
             v == IF Has(rv, f.fld) THEN rv[f.fld]
                  ELSE IF f.typ = "REAL" THEN ZeroReal ELSE 0
         IN  TypProduce(f.typ, v) \o ProduceFieldsSwapped(rv, k + 1)

\* Lines 338-339: data.read_var.get( fld, 0 ), encoded by the field's type, for
\* the fields from k on; a missing field is encoded as the number 0.
RECURSIVE ProduceFields(_, _)
ProduceFields(rv, k) ==
    IF k > NumFields THEN << >>
    ELSE LET f == RD_VAR_RPY_FLD[k]
             v == IF Has(rv, f.fld) THEN rv[f.fld]
                  ELSE IF f.typ = "REAL" THEN ZeroReal ELSE 0
         IN  TypProduce(f.typ, v) \o ProduceFields(rv, k + 1)

\* A mutated reply encoder: the payload follows whatever the status.
ProduceReplyAlwaysPayload(d) ==
    << d.service >> \o << d.status >> \o ProduceFields(d.read_var, 1)

\* The reply branch of produce: service, status, and the fields on status 0.
ProduceReply(d) ==
    << d.service >> \o << d.status >>
       \o (IF d.status = StatusOK THEN ProduceFields(d.read_var, 1) ELSE << >>)

\* super( HART, cls ).produce( data ), the encoder of the base classes, for a
\* record that is no Read Dynamic Variable request or reply: it either
\* encodes the record or rejects it by raising.
SuperProduce(d) ==
    { [raised |-> TRUE, bytes |-> << >>, data |-> d],
      [raised |-> FALSE, bytes |-> << d.service >>, data |-> d] }

\* HART.produce( data ): the outcomes it can have, each with the record as
\* setdefault leaves it.
produce(d) ==
    IF Has(d, "service") /\ d.service = RD_VAR_REQ
    THEN { [raised |-> FALSE, bytes |-> USINT_produce(d.service), data |-> d] }
    ELSE IF ~Has(d, "service") /\ Has(d, RD_VAR_CTX)
    THEN { [raised |-> FALSE, bytes |-> USINT_produce(RD_VAR_REQ),
            data |-> Put(d, "service", RD_VAR_REQ)] }
    ELSE IF Has(d, "service") /\ d.service = RD_VAR_RPY
    THEN { [raised |-> FALSE, bytes |-> ProduceReply(d), data |-> d] }
    ELSE SuperProduce(d)

\* ------------------------------------------------- service recognition ----
\* A mutated test: the context key classifies the record whatever its service.
MatchesContextFirst(d, req, ctx) ==
    \/ Has(d, ctx)
    \/ Has(d, "service") /\ d.service = req

\* data.get( 'service' ) == req
\*   or ctx in data and data.setdefault( 'service', req ) == req
Matches(d, req, ctx) ==
    \/ Has(d, "service") /\ d.service = req
    \/ ~Has(d, "service") /\ Has(d, ctx)

\* The services of the if/elif chain, in its order.
Services ==
    << [req |-> RD_VAR_REQ, ctx |-> RD_VAR_CTX],
       [req |-> RD_STS_REQ, ctx |-> RD_STS_CTX],
       [req |-> RD_INF_REQ, ctx |-> RD_INF_CTX],
       [req |-> PT_INI_REQ, ctx |-> PT_INI_CTX],
       [req |-> PT_QRY_REQ, ctx |-> PT_QRY_CTX],
       [req |-> PT_FLQ_REQ, ctx |-> PT_FLQ_CTX] >>

\* The first branch of the chain the record takes, 0 when it takes the else.
\* A branch that is tried and not taken leaves the record as it is: its
\* setdefault runs only when service is unset, and then the branch is taken.
Branch(d) ==
    IF \E k \in 1..Len(Services) : Matches(d, Services[k].req, Services[k].ctx)
    THEN CHOOSE k \in 1..Len(Services) :
            /\ Matches(d, Services[k].req, Services[k].ctx)
            /\ \A j \in 1..(k - 1) : ~Matches(d, Services[j].req, Services[j].ctx)
    ELSE 0

\* The record after the chain: service set by the taken branch's setdefault.
Recognised(d) ==
    IF Branch(d) = 0 \/ Has(d, "service") THEN d
    ELSE Put(d, "service", Services[Branch(d)].req)

\* -------------------------------------------------------------- state ----
VARIABLES
    pc,         \* per caller: where it is in HART.request
    data,       \* per caller: the Message Record it was called with
    lvl,        \* per caller: "top", or "inner" inside self.request( data.request )
    self,       \* per caller: instance_id of the HART object called
    fi,         \* per caller: index of the loop over RD_VAR_RPY_FLD
    res,        \* per caller: the local res
    attid,      \* per caller: the local attid
    symbol,     \* the tag redirections: tag -> key
    directory,  \* the objects: <<class, instance>> -> (str(attid) -> Attribute)
    entry,      \* history: the record each invocation of request started with
    made,       \* history: per tag, the Attributes created for it
    allocLog,   \* history: per Data Object instance, the ids given out, in order
    succeeded,  \* history: instances that completed a request with status 0
    orig,       \* SpecCodec: the reply record to encode
    wire,       \* SpecCodec: the byte source given to the grammar
    sent,       \* SpecCodec: bytes the grammar has consumed
    gst,        \* SpecCodec: the grammar's current state
    rpy,        \* SpecCodec: the record the grammar fills
    produced    \* SpecCodec: the bytes HART.produce returned

reqvars == << pc, data, lvl, self, fi, res, attid >>
regvars == << symbol, directory >>
histvars == << entry, made, allocLog, succeeded >>
codecvars == << orig, wire, sent, gst, rpy, produced >>
vars == << pc, data, lvl, self, fi, res, attid, symbol, directory,
           entry, made, allocLog, succeeded, orig, wire, sent, gst, rpy,
           produced >>

Callers == {1, 2}
\* HART objects of channels 2 and 3 (instance = channel + 1).
Instances == {3, 4}

\* The record the running invocation of request works on.
Cur(t) == IF lvl[t] = "inner" THEN data[t].request ELSE data[t]
\* data[t] with that record replaced.
WithCur(t, d) == IF lvl[t] = "inner" THEN Put(data[t], "request", d) ELSE d
SetCur(t, d) == data' = [data EXCEPT ![t] = WithCur(t, d)]
Goto(t, where) == pc' = [pc EXCEPT ![t] = where]

\* The tag of the field the loop is at.
CurField(t) == RD_VAR_RPY_FLD[fi[t]]
CurTag(t) == Tag(self[t], CurField(t).fld)
DataObj(t) == << HART_Data_class_id, self[t] >>

\* ------------------------------------------------------------ requests ----
\* Records a caller may hand to request.
Requests ==
    { [service |-> RD_VAR_REQ],
      [read_var |-> TRUE],
      [service |-> RD_VAR_REQ, path |-> "self"],
      [service |-> RD_VAR_REQ, path |-> "bad"],
      [service |-> RD_VAR_REQ, path |-> "other"],
      [service |-> RD_STS_REQ], [read_sts |-> TRUE],
      [service |-> RD_INF_REQ], [get_info |-> TRUE],
      [service |-> PT_INI_REQ], [init |-> TRUE],
      [service |-> PT_QRY_REQ], [query |-> TRUE],
      [service |-> PT_FLQ_REQ], [flush |-> TRUE],
      [service |-> RD_STS_REQ, read_var |-> TRUE],
      [service |-> 14],
      [path |-> "self"],
      [service |-> UC_SND_REQ, request |-> [input |-> << RD_VAR_REQ >>]],
      [service |-> UC_SND_REQ, request |-> [input |-> << PT_INI_REQ >>]],
      [service |-> UC_SND_REQ, request |-> [input |-> << >>]],
      [service |-> UC_SND_REQ, request |-> [input |-> << RD_VAR_RPY, StatusDefault >>]],
      [service |-> UC_SND_REQ,
       request |-> [input |-> << RD_VAR_RPY, StatusOK, 0, 0, 0, 1 >>]] }

\* Read Dynamic Variable requests addressed to the object itself.
ReadVarRequests == { [service |-> RD_VAR_REQ], [read_var |-> TRUE] }

\* Tags that other code may register before HART.request creates them, and
\* the key it registers: an Attribute that does not exist.
ForeignFields == { "HART_command_status", "TV_units" }
ForeignTags == { Tag(i, f) : i \in Instances, f \in ForeignFields }
ForeignKey == Key(HART_Data_class_id, 17, 1)

\* ------------------------------------------------------------- actions ----
\* A caller invokes request( data ) on the HART object of instance i.
Call(t, d, i) ==
    /\ pc[t] = "idle"
    /\ pc' = [pc EXCEPT ![t] = "start"]
    /\ data' = [data EXCEPT ![t] = d]
    /\ lvl' = [lvl EXCEPT ![t] = "top"]
    /\ self' = [self EXCEPT ![t] = i]
    /\ entry' = [entry EXCEPT ![t] = d]
    /\ UNCHANGED << fi, res, attid, regvars, made, allocLog, succeeded, codecvars >>

\* A mutated UnconnectedSend: a parse failure is answered with a status.
UnconnectedSendReplies(t) ==
    /\ pc[t] = "start"
    /\ Has(Cur(t), "service") /\ Cur(t).service = UC_SND_REQ
    /\ LET got == parse_request(Cur(t).request.input)
           inner == Merge(Cur(t).request, got.fields)
       IN  IF got.failed
           THEN /\ Goto(t, "returned")
                /\ data' = [data EXCEPT ![t] = Put(data[t], "status", StatusDefault)]
                /\ UNCHANGED << lvl, entry >>
           ELSE /\ Goto(t, "start")
                /\ data' = [data EXCEPT ![t] = Put(data[t], "request", inner)]
                /\ lvl' = [lvl EXCEPT ![t] = "inner"]
                /\ entry' = [entry EXCEPT ![t] = inner]
    /\ UNCHANGED << self, fi, res, attid, regvars, made, allocLog, succeeded,
                    codecvars >>

\* Lines 183-204: Unconnected Send.  The embedded bytes are parsed into
\* data.request and request recurses on it; a parse failure is re-raised.
UnconnectedSend(t) ==
    /\ pc[t] = "start"
    /\ Has(Cur(t), "service") /\ Cur(t).service = UC_SND_REQ
    /\ LET got == parse_request(Cur(t).request.input)
           inner == Merge(Cur(t).request, got.fields)
       IN  IF got.failed
           THEN /\ Goto(t, "raised")
                /\ UNCHANGED << data, lvl, entry >>
           ELSE /\ Goto(t, "start")
                /\ data' = [data EXCEPT ![t] = Put(data[t], "request", inner)]
                /\ lvl' = [lvl EXCEPT ![t] = "inner"]
                /\ entry' = [entry EXCEPT ![t] = inner]
    /\ UNCHANGED << self, fi, res, attid, regvars, made, allocLog, succeeded,
                    codecvars >>

\* A mutated Route: a path that does not resolve ends the request.
RouteMissIsFatal(t) ==
    /\ pc[t] = "start"
    /\ ~(Has(Cur(t), "service") /\ Cur(t).service = UC_SND_REQ)
    /\ Goto(t, IF route(Cur(t)) = "target" THEN "forwarded"
               ELSE IF route(Cur(t)) = "False" THEN "raised" ELSE "recognise")
    /\ UNCHANGED << data, lvl, self, fi, res, attid, regvars, histvars, codecvars >>

\* A mutated Route: the record is handled here whatever route returns.
RouteIgnoresTarget(t) ==
    /\ pc[t] = "start"
    /\ ~(Has(Cur(t), "service") /\ Cur(t).service = UC_SND_REQ)
    /\ Goto(t, "recognise")
    /\ UNCHANGED << data, lvl, self, fi, res, attid, regvars, histvars, codecvars >>

\* Lines 211-215: route; a target gets the record and its result is returned.
Route(t) ==
    /\ pc[t] = "start"
    /\ ~(Has(Cur(t), "service") /\ Cur(t).service = UC_SND_REQ)
    /\ Goto(t, IF route(Cur(t)) = "target" THEN "forwarded" ELSE "recognise")
    /\ UNCHANGED << data, lvl, self, fi, res, attid, regvars, histvars, codecvars >>

\* A mutated Recognise: the chain has no else, every record is answered here.
RecogniseNoElse(t) ==
    /\ pc[t] = "recognise"
    /\ Goto(t, "preset")
    /\ SetCur(t, Recognised(Cur(t)))
    /\ UNCHANGED << lvl, self, fi, res, attid, regvars, histvars, codecvars >>

\* Lines 223-249: the if/elif chain; the else returns the superclass's result.
Recognise(t) ==
    /\ pc[t] = "recognise"
    /\ IF Branch(Cur(t)) = 0
       THEN Goto(t, "fallback") /\ UNCHANGED data
       ELSE Goto(t, "preset") /\ SetCur(t, Recognised(Cur(t)))
    /\ UNCHANGED << lvl, self, fi, res, attid, regvars, histvars, codecvars >>

\* Lines 256-257: the reply's service code and the default status.
Preset(t) ==
    /\ pc[t] = "preset"
    /\ SetCur(t, Put(Put(Cur(t), "service", ReplyService(Cur(t).service)),
                     "status", StatusDefault))
    /\ Goto(t, "body")
    /\ UNCHANGED << lvl, self, fi, res, attid, regvars, histvars, codecvars >>

\* Lines 259-260 and 290-291: the service body starts, or is not implemented.
Body(t) ==
    /\ pc[t] = "body"
    /\ IF Cur(t).service = RD_VAR_RPY
       THEN /\ SetCur(t, Put(Cur(t), RD_VAR_CTX, EmptyRec))
            /\ fi' = [fi EXCEPT ![t] = 1]
            /\ Goto(t, "resolve")
       ELSE /\ Goto(t, "except")
            /\ UNCHANGED << data, fi >>
    /\ UNCHANGED << lvl, self, res, attid, regvars, histvars, codecvars >>

\* A mutated Resolve: the tag is created whether or not it resolved.
ResolveAlwaysCreates(t, limit) ==
    /\ pc[t] = "resolve"
    /\ fi[t] <= limit
    /\ res' = [res EXCEPT ![t] = resolve_tag(symbol, CurTag(t))]
    /\ Goto(t, "lookup_obj")
    /\ UNCHANGED << data, lvl, self, fi, attid, regvars, histvars, codecvars >>

\* Lines 264-265: res = resolve_tag( tag ), for the fields up to limit.
Resolve(t, limit) ==
    /\ pc[t] = "resolve"
    /\ fi[t] <= limit
    /\ res' = [res EXCEPT ![t] = resolve_tag(symbol, CurTag(t))]
    /\ Goto(t, IF resolve_tag(symbol, CurTag(t)) # None THEN "read" ELSE "lookup_obj")
    /\ UNCHANGED << data, lvl, self, fi, attid, regvars, histvars, codecvars >>

\* Line 270: obj = lookup( clsid, insid )
LookupObj(t) ==
    /\ pc[t] = "lookup_obj"
    /\ Goto(t, IF lookup_obj(directory, HART_Data_class_id, self[t])
               THEN "next_id" ELSE "new_obj")
    /\ UNCHANGED << data, lvl, self, fi, res, attid, regvars, histvars, codecvars >>

\* A mutated NewObj: a second construction replaces the Data Object.
NewObjReplaces(t) ==
    /\ pc[t] = "new_obj"
    /\ Goto(t, "next_id")
    /\ directory' = [k \in DOMAIN directory \cup {DataObj(t)} |->
                       IF k = DataObj(t) THEN EmptyRec ELSE directory[k]]
    /\ UNCHANGED << data, lvl, self, fi, res, attid, symbol, histvars, codecvars >>

\* Line 272: obj = HART_Data( insnam, instance_id=insid ).  An object is
\* constructed with no Attribute; constructing an instance that exists raises.
NewObj(t) ==
    /\ pc[t] = "new_obj"
    /\ IF lookup_obj(directory, HART_Data_class_id, self[t])
       THEN /\ Goto(t, "except")
            /\ UNCHANGED directory
       ELSE /\ Goto(t, "next_id")
            /\ directory' = [k \in DOMAIN directory \cup {DataObj(t)} |->
                               IF k = DataObj(t) THEN EmptyRec ELSE directory[k]]
    /\ UNCHANGED << data, lvl, self, fi, res, attid, symbol, histvars, codecvars >>

\* Lines 274-277: the next attribute id of the Data Object.
NextAttid(keys) == (IF keys # {} THEN int(LastKey(keys)) ELSE 0) + 1

NextId(t) ==
    /\ pc[t] = "next_id"
    /\ attid' = [attid EXCEPT ![t] = NextAttid(DOMAIN directory[DataObj(t)])]
    /\ Goto(t, "insert")
    /\ UNCHANGED << data, lvl, self, fi, res, regvars, histvars, codecvars >>

\* Lines 273 and 278: obj.attribute[str(attid)] = att
Insert(t) ==
    /\ pc[t] = "insert"
    /\ directory' = [directory EXCEPT ![DataObj(t)] =
           Put(@, str(attid[t]),
               Attribute_print(CurTag(t), CurField(t).typ, CurField(t).dfl))]
    /\ made' = [x \in DOMAIN made \cup {CurTag(t)} |->
                  IF x = CurTag(t)
                  THEN (IF x \in DOMAIN made THEN made[x] ELSE 0) + 1
                  ELSE made[x]]
    /\ allocLog' = [allocLog EXCEPT ![self[t]] = Append(@, attid[t])]
    /\ Goto(t, "redirect")
    /\ UNCHANGED << data, lvl, self, fi, res, attid, symbol, entry, succeeded,
                    codecvars >>

\* A mutated Redirect: the key registered carries the channel number.
RedirectByChannel(t) ==
    /\ pc[t] = "redirect"
    /\ symbol' = redirect_tag(symbol, CurTag(t),
                              Key(HART_Data_class_id, self[t] - 1, attid[t]))
    /\ res' = [res EXCEPT ![t] = Key(HART_Data_class_id, self[t] - 1, attid[t])]
    /\ Goto(t, "check")
    /\ UNCHANGED << data, lvl, self, fi, attid, directory, histvars, codecvars >>

\* Line 281: res = redirect_tag( tag, {class, instance, attribute} )
Redirect(t) ==
    /\ pc[t] = "redirect"
    /\ symbol' = redirect_tag(symbol, CurTag(t),
                              Key(HART_Data_class_id, self[t], attid[t]))
    /\ res' = [res EXCEPT ![t] = Key(HART_Data_class_id, self[t], attid[t])]
    /\ Goto(t, "check")
    /\ UNCHANGED << data, lvl, self, fi, attid, directory, histvars, codecvars >>

\* Lines 282-284: assert resolve_tag( tag ) == res
Check(t) ==
    /\ pc[t] = "check"
    /\ Goto(t, IF resolve_tag(symbol, CurTag(t)) = res[t] THEN "read" ELSE "except")
    /\ UNCHANGED << data, lvl, self, fi, res, attid, regvars, histvars, codecvars >>

\* A mutated Read: a field whose Attribute is not found is skipped.
ReadSkipsMissing(t) ==
    /\ pc[t] = "read"
    /\ IF lookup_att(directory, res[t])
       THEN SetCur(t, Put(Cur(t), RD_VAR_CTX,
                Put(Cur(t).read_var, CurField(t).fld,
                    directory[<< res[t].class, res[t].instance >>]
                             [str(res[t].attribute)].value)))
       ELSE UNCHANGED data
    /\ fi' = [fi EXCEPT ![t] = @ + 1]
    /\ Goto(t, "resolve")
    /\ UNCHANGED << lvl, self, res, attid, regvars, histvars, codecvars >>

\* Lines 286-287: attribute = lookup( *res ); read_var[fldnam] = attribute[0].
\* Indexing the None of a failed lookup raises.
Read(t) ==
    /\ pc[t] = "read"
    /\ IF lookup_att(directory, res[t])
       THEN /\ SetCur(t, Put(Cur(t), RD_VAR_CTX,
                   Put(Cur(t).read_var, CurField(t).fld,
                       directory[<< res[t].class, res[t].instance >>]
                                [str(res[t].attribute)].value)))
            /\ fi' = [fi EXCEPT ![t] = @ + 1]
            /\ Goto(t, "resolve")
       ELSE /\ Goto(t, "except")
            /\ UNCHANGED << data, fi >>
    /\ UNCHANGED << lvl, self, res, attid, regvars, histvars, codecvars >>

\* A mutated LoopEnd: the loop ends one field early.
LoopEndEarly(t) ==
    /\ pc[t] = "resolve"
    /\ fi[t] > NumFields - 1
    /\ SetCur(t, Put(Cur(t), "status", StatusOK))
    /\ Goto(t, "encode")
    /\ UNCHANGED << lvl, self, fi, res, attid, regvars, histvars, codecvars >>

\* Line 289: data.status = 0x00, after the last field.
LoopEnd(t) ==
    /\ pc[t] = "resolve"
    /\ fi[t] > NumFields
    /\ SetCur(t, Put(Cur(t), "status", StatusOK))
    /\ Goto(t, "encode")
    /\ UNCHANGED << lvl, self, fi, res, attid, regvars, histvars, codecvars >>

\* A mutated handler: whatever the body raised is raised again.
ExceptReraises(t) ==
    /\ pc[t] = "except"
    /\ Goto(t, "raised")
    /\ UNCHANGED << data, lvl, self, fi, res, attid, regvars, histvars, codecvars >>

\* Lines 295-308: the handler; its assertion raises when status is zero.
Except(t) ==
    /\ pc[t] = "except"
    /\ Goto(t, IF Cur(t).status # 0 THEN "encode" ELSE "raised")
    /\ UNCHANGED << data, lvl, self, fi, res, attid, regvars, histvars, codecvars >>

\* Lines 317-318: data.input = bytearray( self.produce( data )); return True.
\* produce runs outside the try: what it raises leaves request.
Encode(t) ==
    /\ pc[t] = "encode"
    /\ \E out \in produce(Cur(t)) :
          IF out.raised
          THEN /\ Goto(t, "raised")
               /\ UNCHANGED << data, succeeded >>
          ELSE /\ Goto(t, "returned")
               /\ SetCur(t, Put(out.data, "input", out.bytes))
               /\ succeeded' = IF out.data.status = StatusOK
                               THEN succeeded \cup {self[t]} ELSE succeeded
    /\ UNCHANGED << lvl, self, fi, res, attid, regvars, entry, made, allocLog,
                    codecvars >>

\* The caller has the outcome; it may call again.
Finished == { "returned", "raised", "forwarded", "fallback" }

Return(t) ==
    /\ pc[t] \in Finished
    /\ pc' = [pc EXCEPT ![t] = "idle"]
    /\ data' = [data EXCEPT ![t] = EmptyRec]
    /\ lvl' = [lvl EXCEPT ![t] = "top"]
    /\ fi' = [fi EXCEPT ![t] = 0]
    /\ res' = [res EXCEPT ![t] = None]
    /\ attid' = [attid EXCEPT ![t] = 0]
    /\ entry' = [entry EXCEPT ![t] = EmptyRec]
    /\ UNCHANGED << self, regvars, made, allocLog, succeeded, codecvars >>

\* Other code registers a tag of its own before HART.request created it.
Foreign(tag) ==
    /\ \A t \in Callers : pc[t] = "idle"
    /\ tag \notin DOMAIN symbol
    /\ Cardinality({ x \in DOMAIN symbol : symbol[x] = ForeignKey }) < MaxForeign
    /\ symbol' = redirect_tag(symbol, tag, ForeignKey)
    /\ UNCHANGED << reqvars, directory, histvars, codecvars >>

\* ------------------------------------------------------ specifications ----
NoCodec ==
    /\ orig = EmptyRec
    /\ wire = << >>
    /\ sent = 0
    /\ gst = [name |-> "off", k |-> 0]
    /\ rpy = EmptyRec
    /\ produced = << >>

InitRequests ==
    /\ pc = [t \in Callers |-> "idle"]
    /\ data = [t \in Callers |-> EmptyRec]
    /\ lvl = [t \in Callers |-> "top"]
    /\ self = [t \in Callers |-> 3]
    /\ fi = [t \in Callers |-> 0]
    /\ res = [t \in Callers |-> None]
    /\ attid = [t \in Callers |-> 0]
    /\ symbol = EmptyRec
    /\ directory = EmptyRec
    /\ entry = [t \in Callers |-> EmptyRec]
    /\ made = EmptyRec
    /\ allocLog = [i \in Instances |-> << >>]
    /\ succeeded = {}

Init == InitRequests /\ NoCodec

\* Sequential requests: caller 1 runs each request to its end.
Next ==
    \/ \E d \in Requests, i \in Instances : Call(1, d, i)
    \/ UnconnectedSend(1)
    \/ Route(1)
    \/ Recognise(1)
    \/ Preset(1)
    \/ Body(1)
    \/ Resolve(1, NumFields)
    \/ LookupObj(1)
    \/ NewObj(1)
    \/ NextId(1)
    \/ Insert(1)
    \/ Redirect(1)
    \/ Check(1)
    \/ Read(1)
    \/ LoopEnd(1)
    \/ Except(1)
    \/ Encode(1)
    \/ Return(1)
    \/ \E tag \in ForeignTags : Foreign(tag)

Spec == Init /\ [][Next]_vars

\* Two callers run Read Dynamic Variable requests concurrently: a step is one
\* registry operation of one caller.  Each caller is followed through the
\* first ConcFields fields of the loop.
NextConc ==
    \E t \in Callers :
        \/ \E d \in ReadVarRequests, i \in Instances : Call(t, d, i)
        \/ Route(t)
        \/ Recognise(t)
        \/ Preset(t)
        \/ Body(t)
        \/ Resolve(t, ConcFields)
        \/ LookupObj(t)
        \/ NewObj(t)
        \/ NextId(t)
        \/ Insert(t)
        \/ Redirect(t)
        \/ Check(t)
        \/ Read(t)
        \/ Except(t)
        \/ Encode(t)

SpecConc == Init /\ [][NextConc]_vars

\* ------------------------------------------------------ reply grammar ----
\* A mutated branch predicate: the payload is parsed whatever the status.
StatusIsOKAlways(d) == d.status >= 0

\* Line 385: the predicate of decide 'ok'.
StatusIsOK(d) == d.status = StatusOK

\* The next n bytes of the source.
Peek(n) == SubSeq(wire, sent + 1, sent + n)
At(name, k) == gst.name = name /\ gst.k = k
GrammarGoto(name, k) == gst' = [name |-> name, k |-> k]

\* Reply records given to HART.produce: a status and a payload.
CodecStatuses == { 0, 6, 8, 255 }
TrailBytes == { 0, 255 }

\* The value of field k in payload p: payload 2 holds the largest values.
PayloadValue(p, k) ==
    IF RD_VAR_RPY_FLD[k].typ = "REAL"
    THEN IF p = 2 THEN [neg |-> TRUE, mag |-> 2147483647]
         ELSE [neg |-> (p + k) % 2 = 1,
               mag |-> (p * 123456789 + k * 7654321) % 2147483647]
    ELSE IF p = 2 THEN 255 ELSE (p * 37 + k * 11) % 256

Payload(p) ==
    [f \in FieldNames |->
        PayloadValue(p, CHOOSE k \in 1..NumFields : RD_VAR_RPY_FLD[k].fld = f)]

ReplyRecords ==
    { [service |-> RD_VAR_RPY, status |-> st, read_var |-> Payload(p)] :
        st \in CodecStatuses, p \in 1..NumPayloads }

\* HART.produce encodes the record; the bytes, followed by bytes that are not
\* part of the reply, become the grammar's source.
EncodeReply ==
    /\ At("encode", 0)
    /\ \E out \in produce(orig), n \in 0..MaxTrail :
         \E trail \in [1..n -> TrailBytes] :
            /\ ~out.raised
            /\ produced' = out.bytes
            /\ wire' = out.bytes \o trail
    /\ GrammarGoto("service", 0)
    /\ UNCHANGED << reqvars, regvars, histvars, orig, sent, rpy >>

\* Line 355: srvc = USINT( context='service' )
ParseService ==
    /\ At("service", 0)
    /\ sent + 1 <= Len(wire)
    /\ rpy' = Put(rpy, "service", USINT_parse(Peek(1)))
    /\ sent' = sent + 1
    /\ GrammarGoto("status", 0)
    /\ UNCHANGED << reqvars, regvars, histvars, orig, wire, produced >>

\* Line 356: srvc[None] = stts = USINT( context='status' )
ParseStatus ==
    /\ At("status", 0)
    /\ sent + 1 <= Len(wire)
    /\ rpy' = Put(rpy, "status", USINT_parse(Peek(1)))
    /\ sent' = sent + 1
    /\ GrammarGoto("check", 0)
    /\ UNCHANGED << reqvars, regvars, histvars, orig, wire, produced >>

\* Lines 357, 384: in the terminal state 'check', decide 'ok' leads to the
\* first payload state when its predicate holds.
DecideOK ==
    /\ At("check", 0)
    /\ StatusIsOK(rpy)
    /\ GrammarGoto("field", 1)
    /\ UNCHANGED << reqvars, regvars, histvars, orig, wire, sent, rpy, produced >>

\* Line 386: otherwise move_if 'mark' initialises read_var to True and leads
\* nowhere: the machine ends in the terminal state 'check'.
Mark ==
    /\ At("check", 0)
    /\ ~StatusIsOK(rpy)
    /\ rpy' = IF Has(rpy, RD_VAR_CTX) THEN rpy ELSE Put(rpy, RD_VAR_CTX, TRUE)
    /\ GrammarGoto("done", 0)
    /\ UNCHANGED << reqvars, regvars, histvars, orig, wire, sent, produced >>

\* Lines 360-380: payload state k consumes its scalar and stores it in
\* read_var; after the last the machine ends.
ParseField ==
    /\ gst.name = "field"
    /\ LET st == ReplyFieldStates[gst.k]
           w == TypWidth(st.typ)
           v == IF st.typ = "REAL" THEN REAL_parse(Peek(w)) ELSE USINT_parse(Peek(w))
           rv == IF Has(rpy, RD_VAR_CTX) THEN rpy.read_var ELSE EmptyRec
       IN  /\ sent + w <= Len(wire)
           /\ rpy' = Put(rpy, RD_VAR_CTX, Put(rv, st.ext, v))
           /\ sent' = sent + w
           /\ IF gst.k = Len(ReplyFieldStates)
              THEN GrammarGoto("done", 0)
              ELSE GrammarGoto("field", gst.k + 1)
    /\ UNCHANGED << reqvars, regvars, histvars, orig, wire, produced >>

InitCodec ==
    /\ InitRequests
    /\ orig \in ReplyRecords
    /\ wire = << >>
    /\ sent = 0
    /\ gst = [name |-> "encode", k |-> 0]
    /\ rpy = EmptyRec
    /\ produced = << >>

NextCodec ==
    \/ EncodeReply
    \/ ParseService
    \/ ParseStatus
    \/ DecideOK
    \/ Mark
    \/ ParseField

SpecCodec == InitCodec /\ [][NextCodec]_vars

\* -------------------------------------------------------------- claims ----
\* The invocation of caller t is for a service the if/elif chain recognises,
\* and was not routed to another object.
Handled(t) == pc[t] \notin { "idle", "start", "forwarded" }
RecognisedReq(t) == Handled(t) /\ Branch(entry[t]) # 0
ReadVarReq(t) == Handled(t) /\ Branch(entry[t]) = 1
\* The request code of the invocation: given, or inferred from its context tag.
EntryService(t) ==
    IF Has(entry[t], "service") THEN entry[t].service
    ELSE Services[Branch(entry[t])].req
\* The length of a success reply: service, status and 35 bytes of payload.
ReplyLen == 2 + 35

\* C1: a Read Dynamic Variable request always ends by returning, and the
\* bytes left in data.input are 37 bytes starting 0xCB, 0x00 when status is
\* 0x00, and exactly the two bytes 0xCB, status when status is not zero.
C1_ReplyWellFormed ==
    \A t \in Callers :
        (ReadVarReq(t) /\ pc[t] \in Finished) =>
            /\ pc[t] = "returned"
            /\ Has(Cur(t), "input")
            /\ IF Cur(t).status = StatusOK
               THEN /\ Len(Cur(t).input) = ReplyLen
                    /\ SubSeq(Cur(t).input, 1, 2) = << RD_VAR_RPY, StatusOK >>
               ELSE Cur(t).input = << RD_VAR_RPY, Cur(t).status >>

\* A request that failed at the 10th field, after 9 were read, returned the
\* two bytes 0xCB, 0x08.
C1_Witness ==
    /\ pc[1] = "returned"
    /\ ReadVarReq(1)
    /\ fi[1] = 10
    /\ Cur(1).input = << RD_VAR_RPY, StatusDefault >>

\* C2: under concurrent callers at most one Attribute is ever created for
\* each tag, and callers at the same field hold the same key for its tag.
C2_AtMostOneCreation ==
    /\ \A tag \in DOMAIN made : made[tag] <= 1
    /\ \A t, u \in Callers :
          (pc[t] = "read" /\ pc[u] = "read" /\ self[t] = self[u] /\ fi[t] = fi[u])
              => res[t] = res[u]

\* C3: for a recognised request the status is 0x08 when the body starts, no
\* exception leaves request, the handler finds a non-zero status, and request
\* returns True with the encoded reply in data.input.
C3_ExceptionContained ==
    \A t \in Callers :
        RecognisedReq(t) =>
            /\ pc[t] = "body" => Cur(t).status = StatusDefault
            /\ pc[t] = "except" => Cur(t).status # StatusOK
            /\ pc[t] # "raised"
            /\ pc[t] \in Finished => (pc[t] = "returned" /\ Has(Cur(t), "input"))

\* C4: when a Read Dynamic Variable request returns, status is 0x00 exactly
\* when read_var holds every field, and read_var is empty otherwise.
C4_AllOrNothing ==
    \A t \in Callers :
        (ReadVarReq(t) /\ pc[t] = "returned") =>
            /\ Cur(t).status = StatusOK <=> DOMAIN Cur(t).read_var = FieldNames
            /\ Cur(t).status # StatusOK => DOMAIN Cur(t).read_var = {}

\* C4 as amended: when a Read Dynamic Variable request returns, status is
\* 0x00 exactly when read_var holds every field; with a non-zero status
\* read_var holds the fields read before the failure, a proper prefix of the
\* Field Descriptor, and the reply is the two bytes 0xCB, status.
C4_FullOrPrefix ==
    \A t \in Callers :
        (ReadVarReq(t) /\ pc[t] = "returned") =>
            /\ Cur(t).status = StatusOK <=> DOMAIN Cur(t).read_var = FieldNames
            /\ Cur(t).status # StatusOK =>
                  /\ fi[t] <= NumFields
                  /\ DOMAIN Cur(t).read_var =
                        { RD_VAR_RPY_FLD[k].fld : k \in 1..(fi[t] - 1) }
                  /\ Cur(t).input = << RD_VAR_RPY, Cur(t).status >>

\* A request failed at the 10th field and returned with 9 fields in read_var.
C4_Witness ==
    /\ pc[1] = "returned"
    /\ ReadVarReq(1)
    /\ Cur(1).status = StatusDefault
    /\ Cardinality(DOMAIN Cur(1).read_var) = 9

\* C5: in sequential requests a tag is created at most once, a tag this code
\* bound is bound to the one Attribute created for it, a binding never
\* changes, and a request on an instance that already completed a request
\* with status 0x00 leaves the registry unchanged.
C5_IdempotentCreation ==
    [][ /\ \A tag \in DOMAIN made : made[tag] <= 1
        /\ \A tag \in DOMAIN symbol :
              /\ symbol[tag] # ForeignKey => (tag \in DOMAIN made /\ made[tag] = 1)
              /\ tag \in DOMAIN symbol' /\ symbol'[tag] = symbol[tag]
        /\ (pc[1] # "idle" /\ self[1] \in succeeded) => regvars' = regvars
      ]_vars

\* A later request on an instance that succeeded before is reading its last
\* field, whose tag was created once.
C5_Witness ==
    /\ pc[1] = "read"
    /\ self[1] \in succeeded
    /\ fi[1] = NumFields
    /\ made[CurTag(1)] = 1

\* C6: the attribute ids of each Data Object are exactly 1..n, and the ids
\* were given out in the order 1, 2, ..., n, each once.
C6_SequentialIds ==
    \A i \in Instances :
        LET o == << HART_Data_class_id, i >>
            keys == IF o \in DOMAIN directory THEN DOMAIN directory[o] ELSE {}
            n == Cardinality(keys)
        IN  /\ { int(k) : k \in keys } = 1..n
            /\ \A k \in keys : str(int(k)) = k
            /\ allocLog[i] = [j \in 1..n |-> j]

\* A Data Object holds the ids 1..10 and 11 was given out next.
C6_Witness ==
    \E i \in Instances :
        /\ << HART_Data_class_id, i >> \in DOMAIN directory
        /\ << 1, 1 >> \in DOMAIN directory[<< HART_Data_class_id, i >>]
        /\ Len(allocLog[i]) = 11
        /\ allocLog[i][11] = 11

\* C7: once the service is recognised and made a reply, and when request
\* returns, service is the request's code (given or inferred) plus bit 0x80.
C7_ReplyServiceBit ==
    \A t \in Callers :
        (RecognisedReq(t) /\ pc[t] \notin { "recognise", "preset" }) =>
            /\ EntryService(t) < ReplyBit
            /\ Cur(t).service = EntryService(t) + ReplyBit

\* A request with service unset and the read_var key returned with 0xCB.
C7_Witness ==
    /\ pc[1] = "returned"
    /\ ~Has(entry[1], "service")
    /\ Has(entry[1], RD_VAR_CTX)
    /\ Cur(1).service = RD_VAR_RPY

\* C8: the reply grammar ends after exactly 2 bytes on a non-zero status,
\* enters payload states only on status 0x00, and then ends after 37 bytes.
C8_GrammarLength ==
    /\ gst.name = "field" => rpy.status = StatusOK
    /\ gst.name = "done" =>
          IF rpy.status = StatusOK THEN sent = ReplyLen ELSE sent = 2

\* The grammar ended on a non-zero status with unread bytes following.
C8_Witness ==
    /\ gst.name = "done"
    /\ rpy.status # StatusOK
    /\ sent = 2
    /\ Len(wire) > 2

\* C9: decoding what produce emitted for a status 0x00 reply gives back the
\* service, the status and every field's value, and consumes all the bytes.
C9_RoundTrip ==
    (gst.name = "done" /\ orig.status = StatusOK) =>
        /\ rpy.service = orig.service
        /\ rpy.status = orig.status
        /\ DOMAIN rpy.read_var = FieldNames
        /\ \A f \in FieldNames : rpy.read_var[f] = orig.read_var[f]
        /\ sent = Len(produced)

\* The first payload was encoded and decoded to the end.
C9_Witness ==
    /\ gst.name = "done"
    /\ orig.status = StatusOK
    /\ orig.read_var = Payload(1)
    /\ rpy.read_var = Payload(1)
    /\ sent = Len(produced)

CheckFailed(t) ==
    /\ pc[t] \in { "except", "encode", "returned", "raised" }
    /\ res[t] # None

\* C11: when the tag does not resolve to the key just registered for it, the
\* request aborts: it does not return a reply.
C11_CheckFailureAborts ==
    \A t \in Callers : CheckFailed(t) => pc[t] # "returned"

\* C11 as amended: when the tag does not resolve to the key just registered
\* for it, the field loop stops there, nothing is raised to the caller, and
\* the request returns the two bytes 0xCB, 0x08 with the field left unread.
C11_CheckFailureReplies ==
    \A t \in Callers :
        CheckFailed(t) =>
            /\ pc[t] # "raised"
            /\ Cur(t).status = StatusDefault
            /\ ~Has(Cur(t).read_var, CurField(t).fld)
            /\ pc[t] = "returned" => Cur(t).input = << RD_VAR_RPY, StatusDefault >>

\* A caller whose tag was bound to another caller's key returned a reply.
C11_Witness ==
    \E t \in Callers :
        /\ CheckFailed(t)
        /\ pc[t] = "returned"
        /\ resolve_tag(symbol, CurTag(t)) # res[t]

\* Caller t gave request an Unconnected Send whose embedded bytes do not parse.
UCParseFails(t) ==
    /\ pc[t] # "idle"
    /\ Has(entry[t], "service") /\ entry[t].service = UC_SND_REQ
    /\ parse_request(entry[t].request.input).failed

\* C12: an Unconnected Send whose embedded bytes do not parse ends by raising
\* to the caller; the record is left as it was given, with no status and no
\* input, and no step of the request changes the registry.
C12_ParseFailureRaises ==
    [][ \A t \in Callers :
          UCParseFails(t)' =>
              /\ pc'[t] \in { "start", "raised" }
              /\ data'[t] = entry'[t]
              /\ ~Has(data'[t], "status")
              /\ ~Has(data'[t], "input")
              /\ regvars' = regvars
      ]_vars

\* An Unconnected Send whose embedded reply ends inside the REAL field PV was
\* raised to the caller.
C12_Witness ==
    /\ pc[1] = "raised"
    /\ UCParseFails(1)
    /\ Len(entry[1].request.input) = 6
    /\ data[1] = entry[1]

\* Where a caller is while the Read Dynamic Variable body works on the registry.
BodyPcs ==
    { "resolve", "lookup_obj", "new_obj", "next_id", "insert", "redirect",
      "check", "read" }

\* The record was given without service and with the read_var context key.
InferredReadVar(d) == ~Has(d, "service") /\ Has(d, RD_VAR_CTX)
\* The record was given with a service other than 0x4B and with the key.
OtherWithReadVar(d) ==
    Has(d, "service") /\ d.service # RD_VAR_REQ /\ Has(d, RD_VAR_CTX)

\* C13: a record with service unset and the read_var key takes the Read
\* Dynamic Variable branch with service set to 0x4B, enters the body with the
\* record a request with service 0x4B enters it with, and replies with 0xCB;
\* a record with another service and the key keeps its classification; and
\* produce encodes the first as the request byte 0x4B, setting service, and
\* leaves the second to the superclass encoder.
C13_ServiceInference ==
    /\ \A t \in Callers :
          (Handled(t) /\ InferredReadVar(entry[t])) =>
              /\ Branch(entry[t]) = 1
              /\ pc[t] # "fallback"
              /\ pc[t] = "preset" => Cur(t) = Put(entry[t], "service", RD_VAR_REQ)
              /\ pc[t] \notin { "recognise", "preset" } => Cur(t).service = RD_VAR_RPY
    /\ \A t \in Callers :
          (ReadVarReq(t) /\ pc[t] = "resolve" /\ fi[t] = 1) =>
              Cur(t) = Merge(entry[t], [service |-> RD_VAR_RPY,
                                        status |-> StatusDefault,
                                        read_var |-> EmptyRec])
    /\ \A t \in Callers :
          (Handled(t) /\ OtherWithReadVar(entry[t])) =>
              /\ Branch(entry[t]) # 1
              /\ pc[t] \notin BodyPcs
              /\ Cur(t).service \in { entry[t].service, ReplyService(entry[t].service) }
    /\ \A d \in Requests :
          /\ InferredReadVar(d) =>
                produce(d) = { [raised |-> FALSE, bytes |-> << RD_VAR_REQ >>,
                                data |-> Put(d, "service", RD_VAR_REQ)] }
          /\ (OtherWithReadVar(d) /\ d.service # RD_VAR_RPY) =>
                produce(d) = SuperProduce(d)

\* A request given as the read_var key alone returned a success reply.
C13_Witness ==
    /\ pc[1] = "returned"
    /\ entry[1] = [read_var |-> TRUE]
    /\ Cur(1).service = RD_VAR_RPY
    /\ Cur(1).status = StatusOK
    /\ DOMAIN Cur(1).read_var = FieldNames

\* C14: a record that no branch of the if/elif chain takes goes to the
\* superclass's request as it was given: this object changes no field of it
\* (service, status, read_var, input) and no step changes the registry.
C14_FallbackUntouched ==
    [][ \A t \in Callers :
          (Handled(t)' /\ Branch(entry'[t]) = 0
                       /\ ~(Has(entry'[t], "service")
                             /\ entry'[t].service = UC_SND_REQ)) =>
              /\ pc'[t] \in { "recognise", "fallback" }
              /\ Cur(t)' = entry'[t]
              /\ Has(Cur(t)', "service") =>
                    (Cur(t)'.service < ReplyBit \/ Cur(t)' = entry'[t])
              /\ Has(Cur(t)', "status") <=> Has(entry'[t], "status")
              /\ regvars' = regvars
      ]_vars

\* A Get Attribute Single request (0x0E) was handed to the superclass.
C14_Witness ==
    /\ pc[1] = "fallback"
    /\ entry[1] = [service |-> 14]
    /\ data[1] = [service |-> 14]

\* C15: a record that route resolves to another object goes to that object's
\* request as it was given: this object runs no recognition and no service
\* body for it, changes no field of it, and no step changes the registry.
C15_ForwardUntouched ==
    [][ \A t \in Callers :
          (pc'[t] # "idle" /\ route(entry'[t]) = "target") =>
              /\ pc'[t] \in { "start", "forwarded" }
              /\ data'[t] = entry'[t]
              /\ ~Has(data'[t], "status")
              /\ ~Has(data'[t], RD_VAR_CTX)
              /\ ~Has(data'[t], "input")
              /\ regvars' = regvars
      ]_vars

\* A Read Dynamic Variable request addressed to another object was forwarded.
C15_Witness ==
    /\ pc[1] = "forwarded"
    /\ route(entry[1]) = "target"
    /\ data[1] = [service |-> RD_VAR_REQ, path |-> "other"]

\* C16: under concurrent Read Dynamic Variable requests every object of the
\* registry is a Data Object (class 0xF35D) of a channel instance; one that
\* exists is never replaced by a second and never loses an Attribute; and an
\* object is created or extended only by a step of a caller whose HART object
\* has the same instance identifier.
C16_OneDataObject ==
    [][ /\ \A k \in DOMAIN directory' :
              /\ k[1] = HART_Data_class_id
              /\ k[2] \in Instances
              /\ (k \notin DOMAIN directory \/ directory'[k] # directory[k]) =>
                    \E t \in Callers :
                        /\ pc[t] \in { "new_obj", "insert" }
                        /\ pc'[t] # pc[t]
                        /\ self[t] = k[2]
        /\ \A k \in DOMAIN directory :
              /\ k \in DOMAIN directory'
              /\ DOMAIN directory[k] \subseteq DOMAIN directory'[k]
      ]_vars

\* Two callers of one instance both found no Data Object; the second
\* construction was refused and the one object holds the first's Attribute.
C16_Witness ==
    \E t, u \in Callers :
        /\ t # u
        /\ self[t] = self[u]
        /\ pc[t] = "except"
        /\ res[t] = None
        /\ DataObj(u) \in DOMAIN directory
        /\ DOMAIN directory[DataObj(u)] = { str(1) }
        /\ Cardinality(DOMAIN directory) = 1

\* Caller t ran the first Read Dynamic Variable request on an empty registry
\* to the end of its loop: its instance has not completed one before, and the
\* registry holds what this request made and nothing else.
FirstOnEmpty(t) ==
    /\ ReadVarReq(t)
    /\ pc[t] = "encode"
    /\ Cur(t).status = StatusOK
    /\ self[t] \notin succeeded
    /\ DOMAIN directory = { DataObj(t) }
    /\ DOMAIN symbol = { Tag(self[t], f) : f \in FieldNames }
\* The success reply with every field at its default: 0xCB, 0x00 and 35 zeros.
DefaultReply == << RD_VAR_RPY, StatusOK >> \o [i \in 1..(ReplyLen - 2) |-> 0]

\* C17: the first request for channel 3 on an empty registry leaves a Data
\* Object of instance 3 with HART_3_Data.PV bound to its Attribute 1.
C17_ScenarioA ==
    \A t \in Callers :
        (FirstOnEmpty(t) /\ self[t] - 1 = 3) =>
            /\ << HART_Data_class_id, 3 >> \in DOMAIN directory
            /\ Has(symbol, "HART_3_Data.PV")
            /\ symbol["HART_3_Data.PV"] = Key(HART_Data_class_id, 3, 1)

\* C17 as amended: the first request for channel 3 (the HART object of
\* instance 4) on an empty registry leaves one Data Object, of instance 4,
\* with Attributes 1..20 in Field Descriptor order: HART_3_Data.PV is bound to
\* Attribute 4 and Attribute 1 is HART_3_Data.HART_command_status; the request
\* then returns the 37-byte success reply with every field at its default.
C17_FirstRequest ==
    [][ \A t \in Callers :
          (FirstOnEmpty(t) /\ self[t] - 1 = 3) =>
              /\ DOMAIN directory = { << HART_Data_class_id, 4 >> }
              /\ DOMAIN directory[DataObj(t)] = { str(k) : k \in 1..NumFields }
              /\ \A k \in 1..NumFields :
                    /\ symbol[Tag(4, RD_VAR_RPY_FLD[k].fld)] = Key(HART_Data_class_id, 4, k)
                    /\ directory[DataObj(t)][str(k)].name = Tag(4, RD_VAR_RPY_FLD[k].fld)
                    /\ Cur(t).read_var[RD_VAR_RPY_FLD[k].fld] = RD_VAR_RPY_FLD[k].dfl
              /\ Has(symbol, "HART_3_Data.PV")
              /\ symbol["HART_3_Data.PV"] = Key(HART_Data_class_id, 4, 4)
              /\ symbol["HART_3_Data.HART_command_status"] = Key(HART_Data_class_id, 4, 1)
              /\ pc'[t] # pc[t] =>
                    /\ pc'[t] = "returned"
                    /\ Cur(t)'.status = StatusOK
                    /\ Cur(t)'.input = DefaultReply
                    /\ Len(Cur(t)'.input) = 37
      ]_vars

\* The first request for channel 3 returned its reply; the registry holds the
\* Data Object of instance 4 alone.
C17_Witness ==
    /\ pc[1] = "returned"
    /\ self[1] = 4
    /\ succeeded = {4}
    /\ Cur(1).input = DefaultReply
    /\ DOMAIN directory = { << HART_Data_class_id, 4 >> }
    /\ symbol["HART_3_Data.PV"] = Key(HART_Data_class_id, 4, 4)

\* A Read Dynamic Variable request of caller t has set status to 0x00.
ReadVarSucceeded(t) ==
    /\ ReadVarReq(t)
    /\ pc[t] \in { "encode", "returned" }
    /\ Cur(t).status = StatusOK

\* C18: a successful Read Dynamic Variable execution has read exactly 19
\* fields, and read_var holds 19 fields.
C18_NineteenFields ==
    \A t \in Callers :
        ReadVarSucceeded(t) =>
            /\ fi[t] - 1 = 19
            /\ Cardinality(DOMAIN Cur(t).read_var) = 19

\* C18 as amended: status is 0x00 only after the loop has read every entry of
\* the Field Descriptor, which has exactly 20 entries with 20 different
\* names, and read_var then holds exactly these 20 fields.
C18_TwentyFields ==
    \A t \in Callers :
        /\ (ReadVarReq(t) /\ pc[t] \in BodyPcs) => Cur(t).status # StatusOK
        /\ ReadVarSucceeded(t) =>
              /\ Len(RD_VAR_RPY_FLD) = 20
              /\ Cardinality(FieldNames) = 20
              /\ fi[t] - 1 = 20
              /\ DOMAIN Cur(t).read_var = FieldNames
              /\ Cardinality(DOMAIN Cur(t).read_var) = 20

\* A request set status 0x00 with loop_current, the 20th field, read.
C18_Witness ==
    /\ ReadVarSucceeded(1)
    /\ pc[1] = "encode"
    /\ fi[1] = 21
    /\ Has(Cur(1).read_var, RD_VAR_RPY_FLD[20].fld)

\* The wire-layout table of the Read Dynamic Variable reply: for each payload
\* field its offset in the reply, its name and its width in bytes.
WireLayout ==
    << [off |-> 2,  fld |-> "HART_command_status", w |-> 1],
       [off |-> 3,  fld |-> "HART_fld_dev_status", w |-> 1],
       [off |-> 4,  fld |-> "HART_ext_dev_status", w |-> 1],
       [off |-> 5,  fld |-> "PV",                  w |-> 4],
       [off |-> 9,  fld |-> "SV",                  w |-> 4],
       [off |-> 13, fld |-> "TV",                  w |-> 4],
       [off |-> 17, fld |-> "FV",                  w |-> 4],
       [off |-> 21, fld |-> "PV_units",            w |-> 1],
       [off |-> 22, fld |-> "SV_units",            w |-> 1],
       [off |-> 23, fld |-> "TV_units",            w |-> 1],
       [off |-> 24, fld |-> "FV_units",            w |-> 1],
       [off |-> 25, fld |-> "PV_assignment_code",  w |-> 1],
       [off |-> 26, fld |-> "SV_assignment_code",  w |-> 1],
       [off |-> 27, fld |-> "TV_assignment_code",  w |-> 1],
       [off |-> 28, fld |-> "FV_assignment_code",  w |-> 1],
       [off |-> 29, fld |-> "PV_status",           w |-> 1],
       [off |-> 30, fld |-> "SV_status",           w |-> 1],
       [off |-> 31, fld |-> "TV_status",           w |-> 1],
       [off |-> 32, fld |-> "FV_status",           w |-> 1],
       [off |-> 33, fld |-> "loop_current",        w |-> 4] >>

\* The bytes of a reply at the place the table gives field k.
BytesOf(bytes, k) ==
    SubSeq(bytes, WireLayout[k].off + 1, WireLayout[k].off + WireLayout[k].w)

\* C19: the Field Descriptor, the states of the reply grammar and the table
\* list the same names and widths in the same order; in a success reply
\* produce emits each field's encoding at its offset of the table, the last
\* ending at offset 36; and the grammar's k-th payload state starts at the
\* k-th offset, the fields before it stored under the table's names with the
\* values of the bytes at their offsets.
C19_FieldOrder ==
    /\ Len(RD_VAR_RPY_FLD) = Len(WireLayout)
    /\ Len(ReplyFieldStates) = Len(WireLayout)
    /\ \A k \in 1..Len(WireLayout) :
          /\ RD_VAR_RPY_FLD[k].fld = WireLayout[k].fld
          /\ ReplyFieldStates[k].ext = WireLayout[k].fld
          /\ ReplyFieldStates[k].typ = RD_VAR_RPY_FLD[k].typ
          /\ TypWidth(RD_VAR_RPY_FLD[k].typ) = WireLayout[k].w
    /\ (gst.name # "encode" /\ orig.status = StatusOK) =>
          /\ Len(produced) = 36 + 1
          /\ \A k \in 1..Len(WireLayout) :
                BytesOf(produced, k) =
                    TypProduce(RD_VAR_RPY_FLD[k].typ, orig.read_var[WireLayout[k].fld])
    /\ gst.name = "field" =>
          /\ sent = WireLayout[gst.k].off
          /\ \A j \in 1..(gst.k - 1) :
                /\ Has(rpy.read_var, WireLayout[j].fld)
                /\ TypProduce(ReplyFieldStates[j].typ, rpy.read_var[WireLayout[j].fld])
                      = BytesOf(wire, j)

\* The grammar is at its last payload state, loop_current, at offset 33.
C19_Witness ==
    /\ gst.name = "field"
    /\ gst.k = 20
    /\ sent = 33
    /\ orig.read_var = Payload(1)
    /\ Has(rpy.read_var, "FV_status")

\* C20: a request for a recognised service without a body (0x4C..0x50, given
\* or inferred) never works on the registry, gets no read_var added, ends
\* with its code plus 0x80 and status 0x08, and is answered: request returns
\* with the reply in data.input and raises nothing.
C20_UnimplementedAnswered ==
    \A t \in Callers :
        (RecognisedReq(t) /\ Branch(entry[t]) > 1) =>
            /\ pc[t] \notin BodyPcs
            /\ Has(Cur(t), RD_VAR_CTX) <=> Has(entry[t], RD_VAR_CTX)
            /\ pc[t] \in { "except", "encode" } \cup Finished =>
                  /\ Cur(t).service = EntryService(t) + ReplyBit
                  /\ Cur(t).status = StatusDefault
            /\ pc[t] # "raised"
            /\ pc[t] \in Finished => (pc[t] = "returned" /\ Has(Cur(t), "input"))

\* Lines 33-39: the name of the Data Object of each HART instance modelled,
\* channel N being instance N+1.
ChannelName == [i \in Instances |-> IF i = 3 THEN "HART_2_Data" ELSE "HART_3_Data"]

\* The redirect entries this code created: the tags it made an Attribute for
\* and registered.
CreatedTags == { tag \in DOMAIN symbol : tag \in DOMAIN made }

\* C21: once a Read Dynamic Variable request on instance I has set status
\* 0x00, the tag of the k-th Field Descriptor entry is HART_<I-1>_Data.<field>
\* and resolves to the key (0xF35D, I, k), for every k; and at all times the
\* tags this code registered have different keys, each the key of an
\* Attribute that lookup finds and that carries the tag's name.
C21_TagsAndKeys ==
    /\ \A t \in Callers :
          ReadVarSucceeded(t) =>
              \A k \in 1..NumFields :
                  LET tag == ChannelName[self[t]] \o "." \o RD_VAR_RPY_FLD[k].fld
                  IN  /\ tag = Tag(self[t], RD_VAR_RPY_FLD[k].fld)
                      /\ Has(symbol, tag)
                      /\ resolve_tag(symbol, tag) = Key(HART_Data_class_id, self[t], k)
    /\ \A a, b \in CreatedTags : a # b => symbol[a] # symbol[b]
    /\ \A a \in CreatedTags :
          /\ symbol[a].class = HART_Data_class_id
          /\ lookup_att(directory, symbol[a])
          /\ directory[<< symbol[a].class, symbol[a].instance >>]
                      [str(symbol[a].attribute)].name = a

\* Both instances have completed a request: 40 tags are registered, and the
\* request returning now, the first on its instance, left loop_current at
\* Attribute 20.
C21_Witness ==
    /\ pc[1] = "returned"
    /\ ReadVarSucceeded(1)
    /\ succeeded = Instances
    /\ Len(allocLog[self[1]]) = NumFields
    /\ Cardinality(CreatedTags) = 2 * NumFields
    /\ symbol[Tag(self[1], "loop_current")] = Key(HART_Data_class_id, self[1], 20)

====
